---- MODULE Spec2Model ----
(***************************************************************************)
(* Model of the risk-assessment form: calculateRiskScore, getRiskStatus,   *)
(* generateAdvice and onSubmit (src/components/risk-assessment-form.tsx),  *)
(* renderAdviceSection (src/components/risk-result.tsx) and                *)
(* saveAssessmentData (src/unnamed/part_000).                              *)
(*                                                                         *)
(* Strings.  TLA+ strings are ASCII and cannot be indexed, so a JavaScript *)
(* string is a sequence of UTF-16 code units (numbers): the family text    *)
(* "tsuma to ko 2 nin" is <<22971, 12392, 23376, 50, 20154>>.  The advice  *)
(* document is a sequence of tokens <<kind, id, arg>>:                     *)
(*   <<"c", u, 0>>   the single character with code unit u (every title,   *)
(*                   the brackets U+3010 / U+3011, newline, space);        *)
(*   <<"t", l, a>>   the text of source line l of risk-assessment-form.tsx *)
(*                   (with a: the value interpolated into it, or 0);       *)
(*   <<"n", l, a>>   a further number a interpolated into source line l.   *)
(* A "t" or "n" token stands for text that holds no bracket, no line       *)
(* break, and neither starts nor ends with white space (true of every      *)
(* line of the templates, and of toLocaleString's digits and commas).      *)
(***************************************************************************)
EXTENDS Integers, Sequences, FiniteSets, TLC

VARIABLES form, values, isSubmitting, result, pc, supabase, saveState,
          saveCalls, logged, escaped, sortedSections, probe, prevProbe

vars == <<form, values, isSubmitting, result, pc, supabase, saveState,
          saveCalls, logged, escaped, sortedSections, probe, prevProbe>>

(***************************************************************************)
(* Bounds of the model.                                                    *)
(***************************************************************************)
\* family sizes of the pure-function specifications: 1..MaxFamilyCount
MaxFamilyCount == 4
\* family sizes a user types in the form of the full specification
MaxFormFamilyCount == 2
\* family sizes of the profiles whose advice is composed
MaxAdviceFamilyCount == 2
\* scores handed to getRiskStatus on its own: 0..MaxProbeScore
MaxProbeScore == 100

(***************************************************************************)
(* Program constants.                                                      *)
(***************************************************************************)
MinAge == 18
MaxAge == 100
DefaultAge == 35
ScoreFloor == 40
ScoreCap == 100
NoChildrenFloor == 80

(***************************************************************************)
(* Strings as sequences of code units.                                     *)
(***************************************************************************)
Max(a, b) == IF a >= b THEN a ELSE b
Min(a, b) == IF a <= b THEN a ELSE b

\* String.prototype.includes: key occurs in s as a contiguous subsequence
Includes(s, key) ==
  \E i \in 1..(Len(s) - Len(key) + 1) : SubSeq(s, i, i + Len(key) - 1) = key

\* String.prototype.toLowerCase on the code units that have a case here (A-Z)
ToLowerCase(s) ==
  [i \in 1..Len(s) |-> IF s[i] >= 65 /\ s[i] <= 90 THEN s[i] + 32 ELSE s[i]]

IsDigit(u) == u >= 48 /\ u <= 57

\* familyStructure.match(/\d+/g): the first maximal run of ASCII digits,
\* as <<first index, last index>>, or <<0, 0>> when the match is null
FirstDigitRun(s) ==
  IF \A i \in 1..Len(s) : ~IsDigit(s[i]) THEN <<0, 0>>
  ELSE LET b == CHOOSE i \in 1..Len(s) :
                  IsDigit(s[i]) /\ \A j \in 1..(i - 1) : ~IsDigit(s[j])
           e == CHOOSE i \in b..Len(s) :
                  /\ \A j \in b..i : IsDigit(s[j])
                  /\ (i = Len(s) \/ ~IsDigit(s[i + 1]))
       IN <<b, e>>

\* parseInt(digits, 10) of a run of ASCII digits
RECURSIVE ParseInt(_)
ParseInt(d) ==
  IF d = <<>> THEN 0
  ELSE 10 * ParseInt(SubSeq(d, 1, Len(d) - 1)) + (d[Len(d)] - 48)

\* the markers of children, and of a spouse, searched in the family text
KO == <<23376>>                      \* ko (child)
KODOMO == <<12371, 12393, 12418>>    \* kodomo in hiragana
KODOMO_KANJI == <<23376, 20379>>     \* kodomo in kanji
TSUMA == <<22971>>                   \* wife
OTTO == <<22827>>                    \* husband
HAIGUSHA == <<37197, 20598, 32773>>  \* spouse

(***************************************************************************)
(* calculateRiskScore (risk-assessment-form.tsx 94-214).  f is the form    *)
(* state the function reads through form.getValues(); savings,             *)
(* monthlyIncome and familyCount are its parameters, which onSubmit takes  *)
(* from the same submitted values.                                         *)
(***************************************************************************)
ScoreHasChildren(f) ==
  LET familyStructure == ToLowerCase(f.familyStructure)
  IN \/ f.hasChildren
     \/ Includes(familyStructure, KO)
     \/ Includes(familyStructure, KODOMO)
     \/ Includes(familyStructure, KODOMO_KANJI)

childrenCount(f) ==
  LET familyStructure == ToLowerCase(f.familyStructure)
      run == FirstDigitRun(familyStructure)
      spouse == \/ Includes(familyStructure, TSUMA)
                \/ Includes(familyStructure, OTTO)
                \/ Includes(familyStructure, HAIGUSHA)
  IN IF ~ScoreHasChildren(f) THEN 0
     ELSE IF run # <<0, 0>>
          THEN ParseInt(SubSeq(familyStructure, run[1], run[2]))
          ELSE Max(1, f.familyCount - (IF spouse THEN 2 ELSE 1))

\* const userAge = form.getValues().age || 35
userAge(f) == IF f.age = 0 THEN DefaultAge ELSE f.age

\* Math.round(n / d) for n >= 0, d > 0: round half up, in exact arithmetic
RoundDiv(n, d) == (n \div d) + ((2 * (n % d) + d) \div (2 * d))

\* Math.max(40, Math.min(Math.round((savings / (income * count)) * 100 / 3), 100))
baseScaledScore(f) ==
  Max(ScoreFloor,
      Min(RoundDiv(f.savings * 100, 3 * f.monthlyIncome * f.familyCount), ScoreCap))

ageBonus(f) ==
  LET a == userAge(f)
  IN IF a < 30 THEN 15
     ELSE IF a < 40 THEN 10
     ELSE IF a < 50 THEN 8
     ELSE IF a < 60 THEN 5
     ELSE 3

\* variant of familyAdjustment: without the cap of 3 children
familyAdjustmentUncapped(f) ==
  IF ScoreHasChildren(f) THEN -5 * childrenCount(f)
  ELSE IF f.familyCount > 1 THEN 5
  ELSE 10

familyAdjustment(f) ==
  IF ScoreHasChildren(f) THEN -5 * Min(3, childrenCount(f))
  ELSE IF f.familyCount > 1 THEN 5
  ELSE 10

\* variant of scaledScore: the re-floor of line 159 left out
scaledScoreNoRefloor(f) ==
  IF ScoreHasChildren(f) THEN baseScaledScore(f) + familyAdjustment(f)
  ELSE baseScaledScore(f)

\* scaledScore after the family step: re-floored only when there are children
scaledScore(f) ==
  IF ScoreHasChildren(f)
  THEN LET minScoreWithChildren == 65 - (5 * Min(3, childrenCount(f)))
       IN Max(minScoreWithChildren, baseScaledScore(f) + familyAdjustment(f))
  ELSE baseScaledScore(f)

incomeBonus(f) ==
  IF f.monthlyIncome >= 500000 THEN 10
  ELSE IF f.monthlyIncome >= 300000 THEN 7
  ELSE IF f.monthlyIncome >= 200000 THEN 5
  ELSE 3

\* variant of savingsBonus: the bonuses of the two middle tiers exchanged
savingsBonusSwapped(f) ==
  LET sixMonthsCost == f.monthlyIncome * f.familyCount * 6
  IN IF f.savings >= sixMonthsCost THEN 10
     ELSE IF 2 * f.savings >= sixMonthsCost THEN 5
     ELSE IF 4 * f.savings >= sixMonthsCost THEN 7
     ELSE 2

\* savings >= sixMonthsCost / 2 and / 4 are compared without the division
savingsBonus(f) ==
  LET sixMonthsCost == f.monthlyIncome * f.familyCount * 6
  IN IF f.savings >= sixMonthsCost THEN 10
     ELSE IF 2 * f.savings >= sixMonthsCost THEN 7
     ELSE IF 4 * f.savings >= sixMonthsCost THEN 5
     ELSE 2

\* finalScore of line 202, before the no-children floor
scoreBeforeFloor(f) ==
  scaledScore(f) + ageBonus(f) + familyAdjustment(f) + incomeBonus(f) + savingsBonus(f)

\* variant of scoreAfterFloor: the test of line 205 without its negation
scoreAfterFloorInverted(f) ==
  IF ScoreHasChildren(f) THEN Max(NoChildrenFloor, scoreBeforeFloor(f))
  ELSE scoreBeforeFloor(f)

\* finalScore after line 206
scoreAfterFloor(f) ==
  IF ~ScoreHasChildren(f) THEN Max(NoChildrenFloor, scoreBeforeFloor(f))
  ELSE scoreBeforeFloor(f)

\* Math.round of an integer is the integer
calculateRiskScore(f) == Min(ScoreCap, scoreAfterFloor(f))

(***************************************************************************)
(* getRiskStatus (risk-assessment-form.tsx 216-222).  The three labels are *)
(* named by their meaning: kentou-dankai, junbi-OK, zekkou-no-timing.      *)
(***************************************************************************)
Considering == "Considering"
Ready == "Ready"
Optimal == "Optimal"

\* variant of getRiskStatus: < for <=
getRiskStatusStrict(score) ==
  IF score < 40 THEN Considering
  ELSE IF score < 70 THEN Ready
  ELSE Optimal

getRiskStatus(score) ==
  IF score <= 40 THEN Considering
  ELSE IF score <= 70 THEN Ready
  ELSE Optimal

(***************************************************************************)
(* Tokens of the advice document.                                          *)
(***************************************************************************)
Chr(u) == <<"c", u, 0>>
Str(units) == [i \in 1..Len(units) |-> Chr(units[i])]
NL == Chr(10)
SP == Chr(32)
LB == Chr(12304)    \* the opening bracket of a title
RB == Chr(12305)    \* the closing bracket of a title
nl == <<NL>>

\* the text of one source line, and of one with a value interpolated
T(l) == << <<"t", l, 0>> >>
Ta(l, a) == << <<"t", l, a>> >>
Num(l, a) == << <<"n", l, a>> >>

\* source lines a..b of a template literal, joined by their line breaks
RECURSIVE Lines(_, _)
Lines(a, b) == IF a > b THEN <<>> ELSE IF a = b THEN T(a) ELSE T(a) \o nl \o Lines(a + 1, b)

\* a title between its brackets
Bracket(title) == <<LB>> \o Str(title) \o <<RB>>

\* white space and line terminators, as String.prototype.trim removes them
IsWhiteSpace(tok) ==
  tok[1] = "c" /\ tok[2] \in {9, 10, 11, 12, 13, 32, 160, 5760, 8232, 8233, 8239, 8287, 12288, 65279}

\* what the . of a regular expression does not match
IsLineTerminator(tok) == tok[1] = "c" /\ tok[2] \in {10, 13, 8232, 8233}

MinOf(S) == CHOOSE i \in S : \A j \in S : i <= j
MaxOf(S) == CHOOSE i \in S : \A j \in S : i >= j

Trim(s) ==
  LET keep == {i \in 1..Len(s) : ~IsWhiteSpace(s[i])}
  IN IF keep = {} THEN <<>> ELSE SubSeq(s, MinOf(keep), MaxOf(keep))

(***************************************************************************)
(* The titles of the sections, as code units.                              *)
(***************************************************************************)
TitleFunding == <<36039, 37329, 30446, 27161>>
TitleAge20 == <<50, 48, 20195, 12398, 12354, 12394, 12383, 12408>>
TitleAge30 == <<51, 48, 20195, 12398, 12354, 12394, 12383, 12408>>
TitleAge40 == <<52, 48, 20195, 12398, 12354, 12394, 12383, 12408>>
TitleAge50 == <<53, 48, 20195, 12398, 12354, 12394, 12383, 12408>>
TitleAge60 == <<54, 48, 20195, 20197, 19978, 12398, 12354, 12394, 12383, 12408>>
TitleIncome == <<26376, 21454, 12395, 24540, 12376, 12383, 12450, 12489, 12496, 12452, 12473>>
TitleChildren == <<23376, 32946, 12390, 19990, 24111, 21521, 12369, 12450, 12489, 12496, 12452, 12473>>
TitleFamily == <<23478, 26063, 27083, 25104, 12395, 24540, 12376, 12383, 12450, 12489, 12496, 12452, 12473>>
TitleSingle == <<21336, 36523, 32773, 21521, 12369, 12450, 12489, 12496, 12452, 12473>>
TitleLowSavings == <<36015, 33988, 12364, 23569, 12394, 12367, 12390, 12418, 22823, 19976, 22827>>
TitleCareer == <<12469, 12521, 12522, 12540, 12510, 12531, 12418, 23433, 27888, 12391, 12399, 12394, 12356>>
TitleEncouragement == <<12354, 12394, 12383, 12408, 12398, 29305, 21029, 12394, 12513, 12483, 12475, 12540, 12472>>
TitleActionSteps == <<20855, 20307, 30340, 12394, 34892, 21205, 12473, 12486, 12483, 12503>>

(***************************************************************************)
(* generateAdvice (risk-assessment-form.tsx 225-585).  monthlyIncome and   *)
(* familyCount are its parameters; savings, the family text, the flag and  *)
(* the age are read from the form state f.                                 *)
(***************************************************************************)
sixMonthsCost(f) == f.monthlyIncome * f.familyCount * 6
threeMonthsCost(f) == f.monthlyIncome * f.familyCount * 3

\* variant of AdviceHasChildren: the flag alone
AdviceHasChildrenNoText(f) == f.hasChildren

AdviceHasChildren(f) ==
  LET familyStructure == ToLowerCase(f.familyStructure)
  IN \/ f.hasChildren
     \/ Includes(familyStructure, KO)
     \/ Includes(familyStructure, KODOMO)
     \/ Includes(familyStructure, KODOMO_KANJI)

getIncomeLevel(income) ==
  IF income < 250000 THEN "low"
  ELSE IF income < 500000 THEN "medium"
  ELSE "high"

\* ratio = savings / targetAmount, compared with 0.5 and 1 without dividing
getSavingsLevel(savings, targetAmount) ==
  IF 2 * savings < targetAmount THEN "low"
  ELSE IF savings < targetAmount THEN "medium"
  ELSE "high"

incomeLevel(f) == getIncomeLevel(f.monthlyIncome)
savingsLevel(f) == getSavingsLevel(f.savings, threeMonthsCost(f))

\* variant of getRiskProfile: the second rule tested before the first
getRiskProfileHighFirst(f) ==
  IF AdviceHasChildren(f) /\ (savingsLevel(f) # "high" \/ incomeLevel(f) # "high")
  THEN "high"
  ELSE IF AdviceHasChildren(f) /\ savingsLevel(f) = "low" /\ incomeLevel(f) = "low"
  THEN "highest"
  ELSE IF ~AdviceHasChildren(f) /\ savingsLevel(f) = "low" /\ incomeLevel(f) = "low"
  THEN "medium"
  ELSE IF savingsLevel(f) = "high" /\ incomeLevel(f) = "high"
  THEN "low"
  ELSE "medium"

getRiskProfile(f) ==
  IF AdviceHasChildren(f) /\ savingsLevel(f) = "low" /\ incomeLevel(f) = "low"
  THEN "highest"
  ELSE IF AdviceHasChildren(f) /\ (savingsLevel(f) # "high" \/ incomeLevel(f) # "high")
  THEN "high"
  ELSE IF ~AdviceHasChildren(f) /\ savingsLevel(f) = "low" /\ incomeLevel(f) = "low"
  THEN "medium"
  ELSE IF savingsLevel(f) = "high" /\ incomeLevel(f) = "high"
  THEN "low"
  ELSE "medium"

\* a block as the template literals write it: line break, title, line break, body
Block(title, body) == nl \o Bracket(title) \o nl \o body

\* ---- getAgeBasedAdvice, 283-349 ----
AgeTitle(f) ==
  IF f.age < 30 THEN TitleAge20
  ELSE IF f.age < 40 THEN TitleAge30
  ELSE IF f.age < 50 THEN TitleAge40
  ELSE IF f.age < 60 THEN TitleAge50
  ELSE TitleAge60

AgeBody(f) ==
  IF f.age < 30 THEN T(290) \o nl \o nl \o Lines(292, 296) \o nl \o nl \o T(298)
  ELSE IF f.age < 40 THEN T(302) \o nl \o nl \o Lines(304, 308) \o nl \o nl \o T(310)
  ELSE IF f.age < 50 THEN T(314) \o nl \o nl \o Lines(316, 320) \o nl \o nl \o T(322)
  ELSE IF f.age < 60 THEN T(326) \o nl \o nl \o Lines(328, 332) \o nl \o nl \o T(334)
  ELSE T(338) \o nl \o nl \o Lines(340, 345) \o nl \o nl \o T(347)

\* variant of getAgeBasedAdvice: the age read with the default of the score
getAgeBasedAdviceDefaulted(f) ==
  Block(AgeTitle([f EXCEPT !.age = userAge(f)]), AgeBody([f EXCEPT !.age = userAge(f)]))

getAgeBasedAdvice(f) ==
  IF f.age = 0 THEN <<>> ELSE Block(AgeTitle(f), AgeBody(f))

\* ---- getSavingsGoalAdvice, 352-361 ----
\* Math.ceil(difference / (monthlyIncome * 0.2)), in exact arithmetic
monthsToSave(difference, monthlyIncome) ==
  (5 * difference + monthlyIncome - 1) \div monthlyIncome

GoalMet(f) == Ta(355, threeMonthsCost(f))

\* the remaining amount, a fifth of the income (in tenths), the months
GoalProjection(f) ==
  LET difference == threeMonthsCost(f) - f.savings
  IN Ta(359, difference) \o Num(359, 2 * f.monthlyIncome)
       \o Num(359, monthsToSave(difference, f.monthlyIncome))

getSavingsGoalAdvice(f) ==
  LET difference == threeMonthsCost(f) - f.savings
  IN IF difference <= 0 THEN GoalMet(f) ELSE GoalProjection(f)

\* ---- the funding-goal block, written in the template itself, 570-573 ----
FundingBody(f) ==
  Ta(571, threeMonthsCost(f)) \o nl \o Ta(572, sixMonthsCost(f)) \o nl
    \o getSavingsGoalAdvice(f)

\* ---- getFamilyAdvice, 364-391 ----
FamilyTitle(f) ==
  IF AdviceHasChildren(f) THEN TitleChildren
  ELSE IF f.familyCount > 1 THEN TitleFamily
  ELSE TitleSingle

FamilyBody(f) ==
  IF AdviceHasChildren(f) THEN Lines(368, 374)
  ELSE IF f.familyCount > 1 THEN Lines(378, 382)
  ELSE Lines(386, 390)

\* variant of getFamilyAdvice: the family size tested before the children
getFamilyAdviceBySize(f) ==
  IF f.familyCount > 1 THEN Block(TitleFamily, Lines(378, 382))
  ELSE Block(FamilyTitle(f), FamilyBody(f))

getFamilyAdvice(f) == Block(FamilyTitle(f), FamilyBody(f))

\* ---- getIncomeBasedAdvice, 394-427 ----
IncomeBody(f) ==
  IF incomeLevel(f) = "low" THEN Lines(399, 403)
  ELSE IF incomeLevel(f) = "medium" THEN Lines(408, 412)
  ELSE Lines(417, 422)

getIncomeBasedAdvice(f) == Block(TitleIncome, IncomeBody(f))

\* ---- getActionSteps, 430-502 ----
Range(a, b) == [i \in 1..(b - a + 1) |-> a + i - 1]

commonSteps == Range(490, 492)

incomeBasedSteps(level) ==
  IF level = "low" THEN Range(434, 436)
  ELSE IF level = "medium" THEN Range(439, 441)
  ELSE Range(444, 446)

childrenSteps(f) == IF AdviceHasChildren(f) THEN Range(452, 454) ELSE <<>>

\* variant of AgeStepsOf: <= for < in the first test
AgeStepsOfAtMost(age) ==
  IF age <= 30 THEN Range(464, 466)
  ELSE IF age < 40 THEN Range(470, 472)
  ELSE IF age < 50 THEN Range(476, 478)
  ELSE Range(482, 484)

AgeStepsOf(age) ==
  IF age < 30 THEN Range(464, 466)
  ELSE IF age < 40 THEN Range(470, 472)
  ELSE IF age < 50 THEN Range(476, 478)
  ELSE Range(482, 484)

getAgeSteps(f) == IF f.age = 0 THEN <<>> ELSE AgeStepsOf(f.age)

allSteps(f) ==
  commonSteps \o incomeBasedSteps(incomeLevel(f)) \o childrenSteps(f) \o getAgeSteps(f)

\* allSteps.map((step, index) => `${index + 1}. ${step}`).join('\n')
RECURSIVE NumberedFrom(_, _)
NumberedFrom(steps, index) ==
  IF steps = <<>> THEN <<>>
  ELSE Ta(Head(steps), index)
         \o (IF Len(steps) = 1 THEN <<>> ELSE nl \o NumberedFrom(Tail(steps), index + 1))

ActionStepsBody(f) == NumberedFrom(allSteps(f), 1)

getActionSteps(f) == Block(TitleActionSteps, ActionStepsBody(f))

\* ---- getLowSavingsAdvice, 505-521 ----
LevelIndex(level) == IF level = "low" THEN 1 ELSE IF level = "medium" THEN 2 ELSE 3

LowSavingsBody(f) ==
  LET childrenAdvice == IF AdviceHasChildren(f) THEN Lines(508, 510) ELSE <<>>
  IN T(514) \o nl \o Ta(515, LevelIndex(incomeLevel(f))) \o nl \o T(516) \o nl
       \o Ta(517, LevelIndex(incomeLevel(f))) \o nl \o childrenAdvice

\* variant of getLowSavingsAdvice: <= for <
getLowSavingsAdviceAtMost(f) ==
  IF f.savings <= threeMonthsCost(f) THEN Block(TitleLowSavings, LowSavingsBody(f))
  ELSE <<>>

getLowSavingsAdvice(f) ==
  IF f.savings < threeMonthsCost(f) THEN Block(TitleLowSavings, LowSavingsBody(f))
  ELSE <<>>

\* ---- getCareerRiskComparison, 524-537 ----
CareerBody(f) ==
  LET childrenAdvice == IF AdviceHasChildren(f) THEN Lines(526, 528) ELSE <<>>
  IN Lines(532, 535) \o nl \o childrenAdvice

getCareerRiskComparison(f) == Block(TitleCareer, CareerBody(f))

\* ---- getEncouragementMessage, 540-566 ----
EncouragementBody(f) ==
  IF getRiskProfile(f) = "highest" THEN T(544) \o nl \o nl \o T(546)
  ELSE IF getRiskProfile(f) = "high" THEN T(550) \o nl \o nl \o T(552)
  ELSE IF AdviceHasChildren(f) THEN T(556) \o nl \o nl \o T(558)
  ELSE T(562) \o nl \o nl \o T(564)

getEncouragementMessage(f) == Block(TitleEncouragement, EncouragementBody(f))

\* ---- the template of lines 569-584, and its trim ----
AdviceTemplate(f) ==
  nl \o Bracket(TitleFunding) \o nl \o FundingBody(f) \o nl
    \o nl \o getAgeBasedAdvice(f) \o nl
    \o nl \o getIncomeBasedAdvice(f) \o nl
    \o nl \o getFamilyAdvice(f) \o nl
    \o getLowSavingsAdvice(f) \o nl
    \o getCareerRiskComparison(f) \o nl
    \o getEncouragementMessage(f) \o nl
    \o getActionSteps(f) \o nl
    \o <<SP, SP, SP, SP>>

generateAdvice(f) == Trim(AdviceTemplate(f))

(***************************************************************************)
(* renderAdviceSection (risk-result.tsx 38-98): split, pair, order.        *)
(***************************************************************************)
\* A match of the pattern LB (.+?) RB that starts at i: the index of its
\* closing bracket, the nearest one at least two places on with no line
\* terminator in between, or 0 when there is no match at i.
MatchEnd(doc, i) ==
  IF doc[i] # LB THEN 0
  ELSE LET stops == {k \in (i + 1)..Len(doc) : IsLineTerminator(doc[k])}
           lineEnd == IF stops = {} THEN Len(doc) + 1 ELSE MinOf(stops)
           closes == {j \in (i + 2)..(lineEnd - 1) : doc[j] = RB}
       IN IF closes = {} THEN 0 ELSE MinOf(closes)

\* advice.split(/LB(.+?)RB/) from index `from` on: the text before each
\* match, then its capture, and at the end the rest of the text
RECURSIVE SplitFrom(_, _)
SplitFrom(doc, from) ==
  LET starts == {i \in from..Len(doc) : doc[i] = LB /\ MatchEnd(doc, i) # 0}
  IN IF starts = {} THEN <<SubSeq(doc, from, Len(doc))>>
     ELSE LET i == MinOf(starts)
              j == MatchEnd(doc, i)
          IN <<SubSeq(doc, from, i - 1), SubSeq(doc, i + 1, j - 1)>>
               \o SplitFrom(doc, j + 1)

Split(doc) == SplitFrom(doc, 1)

\* .filter(Boolean): the empty strings are dropped
FilterBoolean(parts) == SelectSeq(parts, LAMBDA s : s # <<>>)

\* variant of FilterBoolean: nothing dropped
KeepAll(parts) == parts

\* variant of Pair: the loop ends one pair early
RECURSIVE PairOffByOne(_)
PairOffByOne(sections) ==
  IF Len(sections) < 3 THEN <<>>
  ELSE <<[title |-> sections[1], content |-> Trim(sections[2])]>>
         \o PairOffByOne(SubSeq(sections, 3, Len(sections)))

\* the loop of lines 43-50: pairs of (title, trimmed content)
RECURSIVE Pair(_)
Pair(sections) ==
  IF Len(sections) < 2 THEN <<>>
  ELSE <<[title |-> sections[1], content |-> Trim(sections[2])]>>
         \o Pair(SubSeq(sections, 3, Len(sections)))

\* variant of formattedSections: without filter(Boolean)
formattedSectionsUnfiltered(advice) == Pair(KeepAll(Split(advice)))

formattedSections(advice) == Pair(FilterBoolean(Split(advice)))

\* the keys of orderMap (lines 75-85), as code units
KeySpecial == Str(<<12354, 12394, 12383, 12408, 12398, 29305, 21029>>)
KeyFunding == Str(<<36039, 37329, 30446, 27161>>)
KeyIncome == Str(<<26376, 21454, 12395, 24540, 12376, 12383>>)
KeyChildren == Str(<<23376, 32946, 12390, 19990, 24111, 21521, 12369>>)
KeyFamily == Str(<<23478, 26063, 27083, 25104>>)
KeySingle == Str(<<21336, 36523, 32773, 21521, 12369>>)
KeyLowSavings == Str(<<36015, 33988, 12364, 23569, 12394, 12367, 12390, 12418>>)
KeyCareer == Str(<<12469, 12521, 12522, 12540, 12510, 12531>>)
KeyActionSteps == Str(<<20855, 20307, 30340, 12394, 34892, 21205>>)

\* orderMap, in the order of its keys
orderMap ==
  << <<KeySpecial, 1>>, <<KeyFunding, 2>>, <<KeyIncome, 3>>, <<KeyChildren, 4>>,
     <<KeyFamily, 4>>, <<KeySingle, 4>>, <<KeyLowSavings, 5>>, <<KeyCareer, 6>>,
     <<KeyActionSteps, 7>> >>

OtherOrder == 99

\* variant of getDisplayOrder: a title without a key is ordered first
getDisplayOrderUnknownFirst(title) ==
  LET hits == {k \in 1..Len(orderMap) : Includes(title, orderMap[k][1])}
  IN IF hits = {} THEN 0 ELSE orderMap[MinOf(hits)][2]

\* the first key, in the order of the table, that the title includes
getDisplayOrder(title) ==
  LET hits == {k \in 1..Len(orderMap) : Includes(title, orderMap[k][1])}
  IN IF hits = {} THEN OtherOrder ELSE orderMap[MinOf(hits)][2]

\* Array.prototype.sort with the comparator of line 97: a stable sort, so a
\* section goes after every section whose order is not greater
RECURSIVE SortByOrder(_)
InsertByOrder(sorted, x) ==
  LET before == {i \in 1..Len(sorted) :
                   getDisplayOrder(sorted[i].title) <= getDisplayOrder(x.title)}
      n == IF before = {} THEN 0 ELSE MaxOf(before)
  IN SubSeq(sorted, 1, n) \o <<x>> \o SubSeq(sorted, n + 1, Len(sorted))

SortByOrder(sections) ==
  IF sections = <<>> THEN <<>>
  ELSE InsertByOrder(SortByOrder(SubSeq(sections, 1, Len(sections) - 1)),
                     sections[Len(sections)])

\* variant of renderAdviceSection: the sort left out
renderUnsorted(advice) == formattedSections(advice)

renderAdviceSection(advice) == SortByOrder(formattedSections(advice))

(***************************************************************************)
(* saveAssessmentData (part_000 12-53) and onSubmit (form 60-91).          *)
(*                                                                         *)
(* pc is the position of onSubmit: "idle" (not running), "computed" (the   *)
(* result is set, the call of saveAssessmentData is next), "awaitSave"     *)
(* (suspended at the await of line 75 on a pending insert), "settled" (the *)
(* awaited promise is settled, the continuation has not run yet).          *)
(* saveState is the promise of saveAssessmentData of the latest            *)
(* submission: "none", "skipped" (no client: it returned null), "pending", *)
(* "resolved" or "rejected".                                               *)
(***************************************************************************)
NoResult == [set |-> FALSE, score |-> 0, status |-> "", advice |-> <<>>]
NoProbe == [set |-> FALSE, score |-> 0, status |-> ""]

\* the family texts a user types: (empty), "dokushin" (single), "tsuma"
\* (wife), "tsuma to ko 2 nin" (wife and 2 children), "kodomo" (hiragana),
\* "otto to kodomo 10 nin", "ko 0 nin", "haigusha" (spouse), "DINKS"
TextEmpty == <<>>
TextSingle == <<29420, 36523>>
TextWife == <<22971>>
TextWifeTwoChildren == <<22971, 12392, 23376, 50, 20154>>
TextKodomo == <<12371, 12393, 12418>>
TextHusbandTenChildren == <<22827, 12392, 23376, 20379, 49, 48, 20154>>
TextZeroChildren == <<23376, 48, 20154>>
TextSpouse == <<37197, 20598, 32773>>
TextUpper == <<68, 73, 78, 75, 83>>

\* formSchema (form 17-36), with age 0 standing for "not given"
Valid(f) ==
  /\ Len(f.familyStructure) >= 1
  /\ f.familyCount >= 1
  /\ (f.age = 0 \/ (f.age >= MinAge /\ f.age <= MaxAge))
  /\ f.savings >= 0
  /\ f.monthlyIncome >= 1

\* defaultValues (form 49-56)
defaultValues ==
  [familyStructure |-> TextEmpty, familyCount |-> 1, hasChildren |-> FALSE,
   age |-> 0, savings |-> 0, monthlyIncome |-> 0]

\* lines 65-71: score, status and advice of the submitted values
ComputedResult(f) ==
  [set |-> TRUE,
   score |-> calculateRiskScore(f),
   status |-> getRiskStatus(calculateRiskScore(f)),
   advice |-> generateAdvice(f)]

(***************************************************************************)
(* The full specification: the form, its handlers and onSubmit.  The       *)
(* rendering of the result by RiskResult is a pure function of the result  *)
(* and keeps no state: it is applied in SpecAdvice below.                  *)
(***************************************************************************)
FormTexts == {TextEmpty, TextWife, TextWifeTwoChildren}
FormAges == {0, 35}
FormSavings == {0, 1000000}
FormIncomes == {0, 300000}

Init ==
  /\ form = defaultValues
  /\ values = defaultValues
  /\ isSubmitting = FALSE
  /\ result = NoResult
  /\ pc = "idle"
  /\ supabase \in BOOLEAN
  /\ saveState = "none"
  /\ saveCalls = 0
  /\ logged = FALSE
  /\ escaped = FALSE
  /\ sortedSections = <<>>
  /\ probe = NoProbe
  /\ prevProbe = NoProbe

\* a user event is handled only while no code of onSubmit is running
EventLoopFree == pc \in {"idle", "awaitSave"}

\* the onChange of the family text (form 604-611) also sets the flag
EditFamilyStructure(t) ==
  /\ EventLoopFree
  /\ form' = [form EXCEPT !.familyStructure = t,
                          !.hasChildren = \/ Includes(ToLowerCase(t), KO)
                                          \/ Includes(ToLowerCase(t), KODOMO)
                                          \/ Includes(ToLowerCase(t), KODOMO_KANJI)]
  /\ UNCHANGED <<values, isSubmitting, result, pc, supabase, saveState, saveCalls,
                 logged, escaped, sortedSections, probe, prevProbe>>

EditField(field, v) ==
  /\ EventLoopFree
  /\ form' = [form EXCEPT ![field] = v]
  /\ UNCHANGED <<values, isSubmitting, result, pc, supabase, saveState, saveCalls,
                 logged, escaped, sortedSections, probe, prevProbe>>

EditFamilyCount(n) == EditField("familyCount", n)
EditAge(a) == EditField("age", a)
EditSavings(s) == EditField("savings", s)
EditMonthlyIncome(m) == EditField("monthlyIncome", m)

\* onSubmit up to setResult (60-71); the button is disabled while submitting
\* (form 686) and handleSubmit calls onSubmit with valid values only
Submit ==
  /\ pc = "idle" /\ ~isSubmitting /\ Valid(form)
  /\ isSubmitting' = TRUE
  /\ values' = form
  /\ result' = ComputedResult(form)
  /\ saveState' = "none"
  /\ saveCalls' = 0
  /\ logged' = FALSE
  /\ pc' = "computed"
  /\ UNCHANGED <<form, supabase, escaped, sortedSections, probe, prevProbe>>

\* the call of line 75: without a client saveAssessmentData returns null
\* (part_000 24-27), with one it starts the insert and suspends (31-45)
CallSave ==
  /\ pc = "computed"
  /\ saveCalls' = saveCalls + 1
  /\ saveState' = IF supabase THEN "pending" ELSE "skipped"
  /\ pc' = IF supabase THEN "awaitSave" ELSE "settled"
  /\ UNCHANGED <<form, values, isSubmitting, result, supabase, logged, escaped,
                 sortedSections, probe, prevProbe>>

\* the insert answers without an error: saveAssessmentData returns the data
SaveResolve ==
  /\ pc = "awaitSave" /\ saveState = "pending"
  /\ saveState' = "resolved"
  /\ pc' = "settled"
  /\ UNCHANGED <<form, values, isSubmitting, result, supabase, saveCalls, logged,
                 escaped, sortedSections, probe, prevProbe>>

\* the insert answers with an error, or throws: saveAssessmentData rethrows
SaveReject ==
  /\ pc = "awaitSave" /\ saveState = "pending"
  /\ saveState' = "rejected"
  /\ pc' = "settled"
  /\ UNCHANGED <<form, values, isSubmitting, result, supabase, saveCalls, logged,
                 escaped, sortedSections, probe, prevProbe>>

\* variant of Resume: setIsSubmitting(false) after the try, not in a finally
\* block, and the catch of lines 76-79 rethrowing
ResumeNoFinally ==
  /\ pc = "settled"
  /\ logged' = (saveState = "rejected")
  /\ isSubmitting' = (saveState = "rejected")
  /\ pc' = "idle"
  /\ UNCHANGED <<form, values, result, supabase, saveState, saveCalls, escaped,
                 sortedSections, probe, prevProbe>>

\* the continuation of onSubmit (76-90): the catch logs a rejection, the
\* scroll timer is set (it changes no state of the model), and the finally
\* block ends the submission
\* variant of Resume: without the try/catch of lines 74-79
ResumeNoCatch ==
  /\ pc = "settled"
  /\ escaped' = (escaped \/ saveState = "rejected")
  /\ result' = IF saveState = "rejected" THEN NoResult ELSE result
  /\ isSubmitting' = FALSE
  /\ pc' = "idle"
  /\ UNCHANGED <<form, values, supabase, saveState, saveCalls, logged,
                 sortedSections, probe, prevProbe>>

Resume ==
  /\ pc = "settled"
  /\ logged' = (saveState = "rejected")
  /\ isSubmitting' = FALSE
  /\ pc' = "idle"
  /\ UNCHANGED <<form, values, result, supabase, saveState, saveCalls, escaped,
                 sortedSections, probe, prevProbe>>

Next ==
  \/ \E t \in FormTexts : EditFamilyStructure(t)
  \/ \E n \in 1..MaxFormFamilyCount : EditFamilyCount(n)
  \/ \E a \in FormAges : EditAge(a)
  \/ \E s \in FormSavings : EditSavings(s)
  \/ \E m \in FormIncomes : EditMonthlyIncome(m)
  \/ Submit
  \/ CallSave
  \/ SaveResolve
  \/ SaveReject
  \/ Resume

Spec == Init /\ [][Next]_vars

\* onSubmit runs to its await without a pause, and the continuation of a
\* settled await is always run: the two steps of the code itself are taken
\* when they can be.  The answer of the insert is the network's and the
\* edits are the user's: neither is bound to happen.
SpecLive == Spec /\ WF_vars(CallSave) /\ WF_vars(Resume)

(***************************************************************************)
(* The pure functions on their own.  A profile is any valid input of       *)
(* calculateRiskScore and generateAdvice: the flag is an input of its own  *)
(* (formSchema declares it, the functions read it), whatever the form's    *)
(* handlers make of it.                                                    *)
(***************************************************************************)
Idle ==
  /\ values = defaultValues
  /\ isSubmitting = FALSE
  /\ result = NoResult
  /\ pc = "idle"
  /\ supabase = FALSE
  /\ saveState = "none"
  /\ saveCalls = 0
  /\ logged = FALSE
  /\ escaped = FALSE
  /\ sortedSections = <<>>
  /\ probe = NoProbe
  /\ prevProbe = NoProbe

\* the ages at and next to every bracket, and the ends of the valid range
AgeValues == {0, MinAge, 29, 30, 39, 40, 49, 50, 59, 60, MaxAge}

\* the incomes at and next to every threshold of incomeBonus
ScoreIncomes == {1, 199999, 200000, 299999, 300000, 499999, 500000}

\* savings at and next to every threshold, for a monthly cost c = income * count:
\* 1.2 months (scaled 40), 1.5, 3 and 6 months (the bonuses), and beyond
SavingsAround(c) ==
  {0, c, (6 * c) \div 5, (3 * c) \div 2 - 1, (3 * c + 1) \div 2, 2 * c,
   3 * c - 1, 3 * c, 3 * c + 1, 6 * c - 1, 6 * c, 7 * c}

ScoreTexts ==
  {TextSingle, TextWife, TextWifeTwoChildren, TextKodomo, TextHusbandTenChildren,
   TextZeroChildren, TextSpouse, TextUpper}

Profile(t, n, h, a, s, m) ==
  [familyStructure |-> t, familyCount |-> n, hasChildren |-> h,
   age |-> a, savings |-> s, monthlyIncome |-> m]

InitScore ==
  /\ \E t \in ScoreTexts, n \in 1..MaxFamilyCount, h \in BOOLEAN, a \in AgeValues,
        m \in ScoreIncomes :
       \E s \in SavingsAround(m * n) : form = Profile(t, n, h, a, s, m)
  /\ Idle

\* calculateRiskScore and getRiskStatus applied to the profile
CalcScore ==
  /\ pc = "idle"
  /\ values' = form
  /\ result' = [set |-> TRUE, score |-> calculateRiskScore(form),
                status |-> getRiskStatus(calculateRiskScore(form)), advice |-> <<>>]
  /\ pc' = "scored"
  /\ UNCHANGED <<form, isSubmitting, supabase, saveState, saveCalls, logged,
                 escaped, sortedSections, probe, prevProbe>>

NextScore == CalcScore

SpecScore == InitScore /\ [][NextScore]_vars

\* ---- getRiskStatus over every score, also those no profile yields ----
InitStatus == form = defaultValues /\ Idle

\* two calls, so that any two scores are compared
ProbeStatus(s) ==
  /\ ~prevProbe.set
  /\ prevProbe' = probe
  /\ probe' = [set |-> TRUE, score |-> s, status |-> getRiskStatus(s)]
  /\ UNCHANGED <<form, values, isSubmitting, result, pc, supabase, saveState,
                 saveCalls, logged, escaped, sortedSections>>

NextStatus == \E s \in 0..MaxProbeScore : ProbeStatus(s)

SpecStatus == InitStatus /\ [][NextStatus]_vars

\* ---- generateAdvice and renderAdviceSection ----
AdviceTexts == {TextSingle, TextWife, TextWifeTwoChildren, TextKodomo, TextUpper}
AdviceAges == {0, MinAge, 29, 30, 45, 59, 60}
AdviceIncomes == {249999, 250000, 499999, 500000}
AdviceSavings(c) == {0, (3 * c) \div 2, 3 * c - 1, 3 * c, 3 * c + 1}

InitAdvice ==
  /\ \E t \in AdviceTexts, n \in 1..MaxAdviceFamilyCount, h \in BOOLEAN,
        a \in AdviceAges, m \in AdviceIncomes :
       \E s \in AdviceSavings(m * n) : form = Profile(t, n, h, a, s, m)
  /\ Idle

\* lines 65-71 of onSubmit applied to the profile
ComposeAdvice ==
  /\ pc = "idle"
  /\ values' = form
  /\ result' = ComputedResult(form)
  /\ pc' = "composed"
  /\ UNCHANGED <<form, isSubmitting, supabase, saveState, saveCalls, logged,
                 escaped, sortedSections, probe, prevProbe>>

\* RiskResult renders the result it is given (form 697-703, result 38-98)
RenderAdvice ==
  /\ pc = "composed"
  /\ sortedSections' = renderAdviceSection(result.advice)
  /\ pc' = "rendered"
  /\ UNCHANGED <<form, values, isSubmitting, result, supabase, saveState,
                 saveCalls, logged, escaped, probe, prevProbe>>

NextAdvice == ComposeAdvice \/ RenderAdvice

SpecAdvice == InitAdvice /\ [][NextAdvice]_vars

(***************************************************************************)
(* Properties.                                                             *)
(***************************************************************************)
\* the derived hasChildren of a profile, written out: the flag, or a marker
\* of children in the lower-cased family text
DerivedHasChildren(f) ==
  \/ f.hasChildren
  \/ \E marker \in {KO, KODOMO, KODOMO_KANJI} :
       Includes(ToLowerCase(f.familyStructure), marker)

\* C1: for every valid profile the score returned by calculateRiskScore is
\* at least 40 and at most 100, and at least 80 when the derived hasChildren
\* is false.
C1_ScoreRange ==
  (pc = "scored") =>
    /\ Valid(values)
    /\ 40 <= result.score /\ result.score <= 100
    /\ (~DerivedHasChildren(values) => result.score >= 80)

\* a profile without children whose sum of line 202 is below 80: the floor
\* of line 206 gives exactly 80
C1_Witness ==
  /\ pc = "scored"
  /\ ~DerivedHasChildren(values)
  /\ scoreBeforeFloor(values) < 80
  /\ result.score = 80

\* the order of the three labels
StatusRank(status) ==
  IF status = Considering THEN 1 ELSE IF status = Ready THEN 2
  ELSE IF status = Optimal THEN 3 ELSE 0

\* C2: getRiskStatus is a monotonic step function of the score with its
\* breakpoints exactly at 40 and 70: Considering up to 40, Ready above 40 and
\* up to 70, Optimal above 70; a higher score never gets a lower status.
C2_StatusSteps ==
  /\ probe.set =>
       /\ (probe.status = Considering) <=> (probe.score <= 40)
       /\ (probe.status = Ready) <=> (40 < probe.score /\ probe.score <= 70)
       /\ (probe.status = Optimal) <=> (probe.score > 70)
  /\ (probe.set /\ prevProbe.set /\ prevProbe.score <= probe.score) =>
       StatusRank(prevProbe.status) <= StatusRank(probe.status)

\* the two sides of the breakpoint at 40
C2_Witness ==
  /\ prevProbe.set /\ prevProbe.score = 40 /\ prevProbe.status = Considering
  /\ probe.set /\ probe.score = 41 /\ probe.status = Ready

\* C3: in onSubmit saveAssessmentData is called at most once per submission;
\* whatever its outcome (resolved, rejected, skipped without a client) the
\* result set before the call is neither changed nor cleared, and no error
\* leaves onSubmit.
C3_SaveContained ==
  /\ [](saveCalls <= 1 /\ ~escaped)
  /\ [](saveState \in {"skipped", "pending", "resolved", "rejected"} =>
          (saveCalls = 1 /\ result = ComputedResult(values)))
  /\ [][(pc \in {"computed", "awaitSave", "settled"}) => (result' = result)]_vars

\* a submission whose save was rejected has ended, its result in place
C3_Witness ==
  /\ pc = "idle" /\ ~isSubmitting
  /\ saveState = "rejected" /\ logged
  /\ result.set /\ result = ComputedResult(values)

\* ---- the sections of a rendered document ----
\* the blocks generateAdvice emits for a profile, in the order of its
\* template, each with its title and its body without the line breaks around it
EmittedBlocks(f) ==
  LET blk(emitted, title, body) ==
        IF emitted # <<>> THEN <<[title |-> Str(title), content |-> Trim(body)]>>
        ELSE <<>>
  IN blk(Bracket(TitleFunding), TitleFunding, FundingBody(f))
       \o blk(getAgeBasedAdvice(f), AgeTitle(f), AgeBody(f))
       \o blk(getIncomeBasedAdvice(f), TitleIncome, IncomeBody(f))
       \o blk(getFamilyAdvice(f), FamilyTitle(f), FamilyBody(f))
       \o blk(getLowSavingsAdvice(f), TitleLowSavings, LowSavingsBody(f))
       \o blk(getCareerRiskComparison(f), TitleCareer, CareerBody(f))
       \o blk(getEncouragementMessage(f), TitleEncouragement, EncouragementBody(f))
       \o blk(getActionSteps(f), TitleActionSteps, ActionStepsBody(f))

\* the places, in a list of sections, of those whose title includes key
PlacesIn(sections, key) ==
  {i \in 1..Len(sections) : Includes(sections[i].title, key)}

SectionsWith(key) == PlacesIn(sortedSections, key)

\* whether a section whose title includes key holds the text of source line l
SectionHasLine(key, l) ==
  \E i \in SectionsWith(key) :
    \E k \in 1..Len(sortedSections[i].content) :
      sortedSections[i].content[k][1] = "t" /\ sortedSections[i].content[k][2] = l

AgeTitles == {Str(TitleAge20), Str(TitleAge30), Str(TitleAge40), Str(TitleAge50), Str(TitleAge60)}

AgeSections == {i \in 1..Len(sortedSections) : sortedSections[i].title \in AgeTitles}

\* C4: round trip: splitting a composed document on its bracketed titles,
\* dropping the empty pieces and pairing each title with the text after it
\* gives back exactly the blocks the composer emitted, in the order it
\* emitted them: the same titles and the same bodies, none lost, none
\* added, none shifted.
C4_RoundTrip ==
  (pc \in {"composed", "rendered"}) =>
    formattedSections(result.advice) = EmittedBlocks(values)

\* a document with both optional blocks: eight sections come back
C4_Witness ==
  /\ pc = "composed"
  /\ values.age # 0 /\ values.savings < threeMonthsCost(values)
  /\ Len(formattedSections(result.advice)) = 8
  /\ formattedSections(result.advice)[2].title = Str(AgeTitle(values))
  /\ formattedSections(result.advice)[8].content = ActionStepsBody(values)

\* C5: in the ordered sections of any composed document the section whose
\* title includes "anata e no tokubetsu" comes before the one whose title
\* includes "shikin mokuhyou", which comes before the one whose title
\* includes "gesshuu ni oujita".
C5_OrderingLaw ==
  (pc = "rendered") =>
    /\ Cardinality(SectionsWith(KeySpecial)) = 1
    /\ Cardinality(SectionsWith(KeyFunding)) = 1
    /\ Cardinality(SectionsWith(KeyIncome)) = 1
    /\ \A i \in SectionsWith(KeySpecial) : \A j \in SectionsWith(KeyFunding) : i < j
    /\ \A j \in SectionsWith(KeyFunding) : \A k \in SectionsWith(KeyIncome) : j < k

\* the composer emitted the special message after the other two, the
\* ordered list starts with it
C5_Witness ==
  /\ pc = "rendered"
  /\ \E i \in PlacesIn(formattedSections(result.advice), KeySpecial) :
       \E k \in PlacesIn(formattedSections(result.advice), KeyIncome) : k < i
  /\ SectionsWith(KeySpecial) = {1}
  /\ SectionsWith(KeyFunding) = {2}
  /\ SectionsWith(KeyIncome) = {3}

\* C6: every composed document holds exactly one of the three family
\* sections: the children variant iff hasChildren, the family variant iff
\* no children and familyCount > 1, the single variant iff no children and
\* familyCount = 1.
C6_OneFamilySection ==
  (pc = "rendered") =>
    LET hc == DerivedHasChildren(values)
        n(key) == Cardinality(SectionsWith(key))
    IN /\ n(KeyChildren) = (IF hc THEN 1 ELSE 0)
       /\ n(KeyFamily) = (IF ~hc /\ values.familyCount > 1 THEN 1 ELSE 0)
       /\ n(KeySingle) = (IF ~hc /\ values.familyCount = 1 THEN 1 ELSE 0)
       /\ n(KeyChildren) + n(KeyFamily) + n(KeySingle) = 1

\* a family of two without children gets the family variant alone
C6_Witness ==
  /\ pc = "rendered"
  /\ ~DerivedHasChildren(values) /\ values.familyCount > 1
  /\ Cardinality(SectionsWith(KeyFamily)) = 1
  /\ SectionsWith(KeyChildren) = {} /\ SectionsWith(KeySingle) = {}

\* C7: the low-savings section is emitted iff savings < threeMonthsCost =
\* monthlyIncome * familyCount * 3, which is exactly when the funding-goal
\* section shows the projection of the remaining amount (line 359) and not
\* the goal-already-met message (line 355).
C7_LowSavings ==
  (pc = "rendered") =>
    LET low == SectionsWith(KeyLowSavings) # {}
        projection == SectionHasLine(KeyFunding, 359)
        met == SectionHasLine(KeyFunding, 355)
    IN /\ low <=> (values.savings < values.monthlyIncome * values.familyCount * 3)
       /\ low <=> projection
       /\ projection <=> ~met
       /\ Cardinality(SectionsWith(KeyLowSavings)) <= 1

\* one yen below the goal: the section and the projection are there
C7_Witness ==
  /\ pc = "rendered"
  /\ values.savings = values.monthlyIncome * values.familyCount * 3 - 1
  /\ SectionsWith(KeyLowSavings) # {}
  /\ SectionHasLine(KeyFunding, 359)

\* C8: the age section is emitted iff the raw age is not 0; the default of
\* 35 for age 0 acts in calculateRiskScore only (an ageBonus of 10, the
\* score of a 35-year-old) and brings neither an age section nor
\* age-specific action steps (lines 464-484) into the advice.
C8_AgeSection ==
  (pc = "rendered") =>
    LET ageSteps == \E l \in 464..484 : SectionHasLine(KeyActionSteps, l)
    IN /\ (AgeSections # {}) <=> (values.age # 0)
       /\ Cardinality(AgeSections) <= 1
       /\ ageSteps <=> (values.age # 0)
       /\ (values.age = 0) =>
            /\ ageBonus(values) = 10
            /\ result.score = calculateRiskScore([values EXCEPT !.age = 35])

\* no age given: scored as a 35-year-old, and only the six other sections
C8_Witness ==
  /\ pc = "rendered"
  /\ values.age = 0
  /\ AgeSections = {}
  /\ ~(\E l \in 464..484 : SectionHasLine(KeyActionSteps, l))
  /\ SectionsWith(KeyActionSteps) # {}
  /\ result.score = calculateRiskScore([values EXCEPT !.age = 35])

\* C9: hasChildren is the flag OR a marker of children in the family text,
\* so a false flag does not hide a marker and a true flag needs none;
\* calculateRiskScore and generateAdvice derive the same value: the score is
\* that of the profile with the flag set to the OR, and the children variant
\* of the family section is there iff the OR holds.
C9_HasChildren ==
  (pc = "rendered") =>
    LET expected == DerivedHasChildren(values)
    IN /\ ScoreHasChildren(values) = expected
       /\ AdviceHasChildren(values) = expected
       /\ ScoreHasChildren(values) = AdviceHasChildren(values)
       /\ (SectionsWith(KeyChildren) # {}) <=> expected
       /\ result.score = calculateRiskScore([values EXCEPT !.hasChildren = expected])

\* "kodomo" in hiragana with the flag off: the children variant is emitted
C9_Witness ==
  /\ pc = "rendered"
  /\ ~values.hasChildren
  /\ values.familyStructure = TextKodomo
  /\ SectionsWith(KeyChildren) # {}
  /\ result.score < 80

\* C10: for every valid profile, also one with both optional blocks left
\* out (age 0 and savings >= threeMonthsCost), the ordered list has at least
\* 6 sections: funding goal, income tier, family situation, career
\* comparison, special message and action steps are each there exactly once.
C10_MandatorySections ==
  (pc = "rendered") =>
    /\ Len(sortedSections) >= 6
    /\ Cardinality(SectionsWith(KeyFunding)) = 1
    /\ Cardinality(SectionsWith(KeyIncome)) = 1
    /\ Cardinality(SectionsWith(KeyChildren) \cup SectionsWith(KeyFamily)
                     \cup SectionsWith(KeySingle)) = 1
    /\ Cardinality(SectionsWith(KeyCareer)) = 1
    /\ Cardinality(SectionsWith(KeySpecial)) = 1
    /\ Cardinality(SectionsWith(KeyActionSteps)) = 1

\* both optional blocks left out: exactly the six
C10_Witness ==
  /\ pc = "rendered"
  /\ values.age = 0 /\ values.savings >= threeMonthsCost(values)
  /\ Len(sortedSections) = 6

\* ---- the risk profile ----
\* the income level of the claim: Low below 250000, Medium below 500000
ClaimedIncomeLevel(f) ==
  IF f.monthlyIncome < 250000 THEN "Low"
  ELSE IF f.monthlyIncome < 500000 THEN "Medium"
  ELSE "High"

\* the savings level of the claim: savings / threeMonthsCost below 0.5 is
\* Low, below 1 Medium (threeMonthsCost is positive for a valid profile)
ClaimedSavingsLevel(f) ==
  LET three == f.monthlyIncome * f.familyCount * 3
  IN IF 2 * f.savings < three THEN "Low"
     ELSE IF f.savings < three THEN "Medium"
     ELSE "High"

\* the table of the five rules, one row per combination of the levels
ClaimedRiskProfile(hc, sl, il) ==
  CASE hc /\ sl = "Low" /\ il = "Low" -> "highest"
    [] hc /\ sl = "High" /\ il = "High" -> "low"
    [] hc /\ ~(sl = "Low" /\ il = "Low") /\ ~(sl = "High" /\ il = "High") -> "high"
    [] ~hc /\ sl = "High" /\ il = "High" -> "low"
    [] ~hc /\ ~(sl = "High" /\ il = "High") -> "medium"

RenderedAgeSteps == {l \in 464..484 : SectionHasLine(KeyActionSteps, l)}

\* the bracket of an age among <30, <40, <50 and the rest
StepBracket(age) ==
  IF age < 30 THEN 1 ELSE IF age < 40 THEN 2 ELSE IF age < 50 THEN 3 ELSE 4

\* the submitted profile at another age
AtAge(a) == [values EXCEPT !.age = a]

\* C12 (as claimed): with a non-zero age the 3 age-specific action steps are
\* selected by the same five brackets as the age section (<30, <40, <50,
\* <60, >=60): two ages get the same age-specific steps iff they get the
\* same age section.
C12_SameFiveBrackets ==
  (pc = "rendered" /\ values.age # 0) =>
    /\ Cardinality(RenderedAgeSteps) = 3
    /\ \A a \in MinAge..MaxAge :
         (getAgeSteps(AtAge(a)) = getAgeSteps(values))
           <=> (getAgeBasedAdvice(AtAge(a)) = getAgeBasedAdvice(values))

\* C12 (amended): with a non-zero age the 3 age-specific action steps are
\* selected by four brackets (<30, <40, <50, >=50): two ages get the same
\* steps iff they are in the same of these four brackets, and two ages with
\* the same age section get the same steps; the converse fails for 50-59
\* against 60 and over, which share their steps and differ in their section.
C12_AgeStepBrackets ==
  (pc = "rendered" /\ values.age # 0) =>
    /\ Cardinality(RenderedAgeSteps) = 3
    /\ RenderedAgeSteps =
         (CASE StepBracket(values.age) = 1 -> 464..466
            [] StepBracket(values.age) = 2 -> 470..472
            [] StepBracket(values.age) = 3 -> 476..478
            [] StepBracket(values.age) = 4 -> 482..484)
    /\ \A a \in MinAge..MaxAge :
         /\ (getAgeSteps(AtAge(a)) = getAgeSteps(values))
              <=> (StepBracket(a) = StepBracket(values.age))
         /\ (getAgeBasedAdvice(AtAge(a)) = getAgeBasedAdvice(values))
              => (getAgeSteps(AtAge(a)) = getAgeSteps(values))
         /\ (values.age >= 50 /\ values.age < 60 /\ a >= 60) =>
              /\ getAgeSteps(AtAge(a)) = getAgeSteps(values)
              /\ getAgeBasedAdvice(AtAge(a)) # getAgeBasedAdvice(values)

\* a 59-year-old: the section of the fifties, the steps of lines 482-484,
\* which a 60-year-old gets as well under the section of the sixties
C12_Witness ==
  /\ pc = "rendered"
  /\ values.age = 59
  /\ RenderedAgeSteps = 482..484
  /\ \E i \in AgeSections : sortedSections[i].title = Str(TitleAge50)
  /\ getAgeSteps(AtAge(60)) = getAgeSteps(values)
  /\ AgeTitle(AtAge(60)) = TitleAge60

\* ---- the steps of calculateRiskScore ----
\* C13 (as claimed): the sum of line 202 (scaled + ageBonus +
\* familyAdjustment + incomeBonus + savingsBonus), the value right before
\* the no-children floor, lies in [40,100] for every valid profile; after
\* the floor it lies in [80,100] whenever hasChildren is false; after the
\* final clamp it lies in [0,100].
C13_StepRanges ==
  (pc = "scored") =>
    /\ 40 <= scoreBeforeFloor(values) /\ scoreBeforeFloor(values) <= 100
    /\ ~DerivedHasChildren(values) =>
         (80 <= scoreAfterFloor(values) /\ scoreAfterFloor(values) <= 100)
    /\ 0 <= result.score /\ result.score <= 100

\* C13 (amended): the sum of line 202 is at least 40 (at least 43) and is
\* not bounded by 100: it goes up to 145; after the floor it is at least 80
\* whenever hasChildren is false, and still up to 145; only the final clamp
\* brings the score into [0,100], where it is in [80,100] whenever
\* hasChildren is false.
C13_StepBounds ==
  (pc = "scored") =>
    LET hc == DerivedHasChildren(values)
    IN /\ 43 <= scoreBeforeFloor(values)
       /\ scoreBeforeFloor(values) <= 145
       /\ ~hc => (80 <= scoreAfterFloor(values) /\ scoreAfterFloor(values) <= 145)
       /\ hc => (scoreAfterFloor(values) = scoreBeforeFloor(values))
       /\ 0 <= result.score /\ result.score <= 100
       /\ result.score = Min(100, scoreAfterFloor(values))
       /\ ~hc => (80 <= result.score)

\* a single person under 30 with six months of a high income saved: the sum
\* is 145 before and after the floor, the clamp returns 100
C13_Witness ==
  /\ pc = "scored"
  /\ ~DerivedHasChildren(values)
  /\ scoreBeforeFloor(values) = 145
  /\ scoreAfterFloor(values) = 145
  /\ result.score = 100

C15_AgeSectionLast ==
  (pc = "rendered" /\ values.age # 0) =>
    /\ Cardinality(AgeSections) = 1
    /\ \A i \in AgeSections :
         /\ \A k \in 1..Len(orderMap) : ~Includes(sortedSections[i].title, orderMap[k][1])
         /\ getDisplayOrder(sortedSections[i].title) = 99
         /\ i = Len(sortedSections)
         /\ \A j \in SectionsWith(KeyActionSteps) : j < i
         /\ formattedSections(result.advice)[2] = sortedSections[i]
    /\ SectionsWith(KeyActionSteps) # {}
    /\ \A j \in 1..Len(sortedSections) :
         (j \notin AgeSections) => (getDisplayOrder(sortedSections[j].title) < 99)

\* a 30-year-old with low savings: eight sections, the composer put the
\* age section second and the action steps last, the ordered output has
\* the action steps seventh and the age section eighth
C15_Witness ==
  /\ pc = "rendered"
  /\ values.age = 30
  /\ Len(sortedSections) = 8
  /\ formattedSections(result.advice)[2].title = Str(TitleAge30)
  /\ Includes(formattedSections(result.advice)[8].title, KeyActionSteps)
  /\ sortedSections[8].title = Str(TitleAge30)
  /\ SectionsWith(KeyActionSteps) = {7}

\* ---- the course of a submission ----
\* C16: in every run of onSubmit the result (score, status, advice) is set
\* before saveAssessmentData is invoked; provided the save call settles,
\* isSubmitting eventually returns to false, whether the save succeeded,
\* threw or was skipped; and isSubmitting is true throughout the interval
\* in which the save is pending.
C16_SubmitCourse ==
  /\ [][(saveCalls' = saveCalls + 1) =>
          (result.set /\ result = ComputedResult(values) /\ result' = result)]_vars
  /\ [](saveCalls >= 1 => (result.set /\ result = ComputedResult(values)))
  /\ [](saveState = "pending" => isSubmitting)
  /\ [](pc \in {"computed", "awaitSave", "settled"} => isSubmitting)
  /\ [](isSubmitting => <>(~isSubmitting \/ saveState = "pending"))
  /\ \A outcome \in {"resolved", "rejected", "skipped"} :
       (pc = "settled" /\ saveState = outcome)
         ~> (~isSubmitting /\ saveState = outcome /\ result = ComputedResult(values))

\* a submission whose save succeeded has ended: isSubmitting is false again
C16_Witness ==
  /\ pc = "idle" /\ ~isSubmitting
  /\ saveState = "resolved" /\ saveCalls = 1
  /\ result.set /\ result = ComputedResult(values)

\* ---- the score as a function of the savings ----
\* the submitted profile with other savings
WithSavings(s) == [values EXCEPT !.savings = s]

\* the savings the submitted profile is compared with
OtherSavings == SavingsAround(values.monthlyIncome * values.familyCount)

\* C17: calculateRiskScore is monotone non-decreasing in savings: of two
\* valid profiles that differ only in savings the one with the larger
\* savings never gets a lower score, and therefore never a lower status.
C17_MonotoneInSavings ==
  (pc = "scored") =>
    \A s \in {x \in OtherSavings : x >= values.savings} :
      LET larger == calculateRiskScore(WithSavings(s))
      IN /\ Valid(WithSavings(s))
         /\ larger >= result.score
         /\ StatusRank(getRiskStatus(larger)) >= StatusRank(result.status)

\* with children and no savings the status is Ready; with seven months of
\* costs saved the same profile scores higher and is Optimal
C17_Witness ==
  /\ pc = "scored"
  /\ DerivedHasChildren(values)
  /\ values.savings = 0
  /\ result.status = Ready
  /\ \E s \in OtherSavings :
       /\ s > values.savings
       /\ calculateRiskScore(WithSavings(s)) > result.score
       /\ getRiskStatus(calculateRiskScore(WithSavings(s))) = Optimal

====
